---- MODULE Spec2Model ----
(***************************************************************************)
(* A model of intersectomics: the parallel bootstrap-correlation           *)
(* dispatcher (run_parallel.py), the pair generator and combinations_count *)
(* (utils.py), and the correlation-graph engine (graph.py).                *)
(*                                                                         *)
(* Entity ids are integers.  A nested dict {s1: {s2: v}} is a function     *)
(* whose domain is the set of its keys; <<>> is the empty dict.  A         *)
(* DataFrame built from such a dict is the record of its column labels,    *)
(* its row labels and the populated cells.  Each function of the package   *)
(* has its own variables and its own specification; while one runs the     *)
(* variables of the others stay idle.                                      *)
(***************************************************************************)
EXTENDS Integers, Sequences, FiniteSets, TLC

(* ------------------------------ bounds -------------------------------- *)
\* the largest number of rows of the input table, and of entity ids
MaxRows == 3
\* the largest chunk_size the dispatcher is called with
MaxChunk == 2
\* the largest n_processes the dispatcher is called with
MaxProcs == 2
\* the largest number of distinct entity ids handed to the pair generator
MaxIds == 4
\* the largest number of labels of a matrix, and of nodes of a graph
MaxNodes == 3
\* the largest number of cells of a matrix that hold a value
MaxCells == 2
\* the largest number of omics layers handed to make_intersection_graph
MaxLayers == 2
\* the largest number of cells that hold a value over all layers together
MaxLayerCells == 4
\* populated cells over all layers of a call with a cutoff pair per layer
MaxTunedCells == 2
\* the largest number of values in a measurement series
MaxSamples == 3
\* the largest iteration count of the estimator
MaxIterations == 2

Ents == 1..MaxRows

VARIABLES
    \* ---- bootstrap_spearman_corr_parallel: arguments
    columns_names,   \* df_input.columns.names
    index,           \* df_input.index, a sequence of entity ids
    n_processes,     \* size of the worker pool
    chunk_size,      \* chunksize handed to imap_unordered
    failing,         \* the pairs on which the estimator raises
    \* ---- bootstrap_spearman_corr_parallel: locals
    pc,              \* position of the calling process
    iter_pairs,      \* what is left of combinations(df.index.unique(), 2)
    iter_length,     \* combinations_count(len(df.index.unique()), 2)
    correlations,    \* dict s1 -> dict s2 -> corr
    pvalues,         \* dict s1 -> dict s2 -> combined p-value
    result,          \* the returned pair of DataFrames, or None
    error,           \* the exception that reached the caller, or None
    \* ---- multiprocessing.Pool
    pool,            \* the live worker processes
    inqueue,         \* chunks of tasks sent to the workers, not yet taken
    busy,            \* the chunks the workers are computing, one per busy
                     \* worker (the workers are interchangeable)
    outqueue,        \* chunk results in completion order, not yet consumed
    cur,             \* results of the chunk the caller is iterating over
    nSent,           \* chunks dispatched (the iterator's length once known)
    nRecv,           \* chunks the caller took from the iterator
    \* ---- history of the run
    yielded,         \* pair -> number of tasks _pair_interator yielded for it
    computed,        \* pair -> number of estimator calls for it
    folded,          \* pair -> number of times its result was folded
    reordered,       \* a result was folded before that of an earlier pair
    \* ---- the pair generator run on its own
    pg_ids,          \* df.index.unique(): a sequence of distinct entity ids
    pg_iter,         \* what is left of combinations(pg_ids, 2)
    pg_tasks,        \* the tasks _pair_interator has yielded so far
    pg_total,        \* combinations_count(len(pg_ids), 2), the progress total
    pg_pc,           \* position of the generator
    \* ---- make_corr_graph
    cg_corr,         \* corr: cell <<row, column>> -> correlation or NaN
    cg_pvalues,      \* pvalues: cell <<row, column>> -> p-value or NaN
    cg_pvalue_cutoff,
    cg_corr_cutoff,
    cg_G,            \* the returned graph, or None
    cg_pc,
    \* ---- remove_G_pair_isolates
    pr_G_in,         \* the input graph
    pr_order,        \* G.nodes(): the nodes in iteration order
    pr_i,            \* position of the for loop in pr_order
    pr_to_remove,    \* the list to_remove
    pr_G,            \* the returned graph, or None
    pr_pc,
    \* ---- make_intersection_graph
    ix_corrs,        \* corrs: one correlation matrix per layer
    ix_pvalues,      \* pvalues: one p-value matrix per layer
    ix_pvalue_cutoff,
    ix_corr_cutoff,
    ix_layer_cutoffs, \* the cutoff pair the caller means for each layer
    ix_graphs,       \* graphs: the layer graphs built so far
    ix_inter,        \* G_inter as nx.intersection_all returns it, or None
    ix_G,            \* G_inter after remove_G_pair_isolates, or None
    ix_error,        \* the exception that reached the caller, or None
    ix_communities,  \* communities: the list louvain_communities returned
    ix_comm_trans,   \* comm_trans: community id -> members
    ix_trans_comm,   \* trans_comm: entity id -> community id
    ix_count,        \* count: the id of the next community
    ix_pc,
    \* bootstrap_spearman_correlation, called on one pair task
    bs_columns,      \* the table's replicate labels in column order, for a
                     \* task the dispatcher builds; <<>> for a direct call
    bs_series_1,     \* sample_series_1: the replicate label of each value
    bs_series_2,     \* sample_series_2: the replicate label of each value
    bs_n_iterations,
    bs_normal_dict_1, \* normal_dict_1: the items in dict order
    bs_normal_dict_2, \* normal_dict_2: the items in dict order
    bs_a,            \* a: the values drawn in this iteration from set 1
    bs_b,            \* b: the values drawn in this iteration from set 2
    bs_correlations, \* correlations: one entry per finished iteration
    bs_error,        \* the exception that reached the caller, or None
    bs_pc

dispVars == <<columns_names, index, n_processes, chunk_size, failing, pc,
              iter_pairs, iter_length, correlations, pvalues, result, error,
              pool, inqueue, busy, outqueue, cur, nSent, nRecv,
              yielded, computed, folded, reordered>>

pairVars == <<pg_ids, pg_iter, pg_tasks, pg_total, pg_pc>>

cgVars == <<cg_corr, cg_pvalues, cg_pvalue_cutoff, cg_corr_cutoff, cg_G, cg_pc>>

prVars == <<pr_G_in, pr_order, pr_i, pr_to_remove, pr_G, pr_pc>>

ixComm == <<ix_communities, ix_comm_trans, ix_trans_comm, ix_count>>
ixVars == <<ix_corrs, ix_pvalues, ix_pvalue_cutoff, ix_corr_cutoff,
            ix_layer_cutoffs, ix_graphs, ix_inter, ix_G, ix_error, ixComm, ix_pc>>

bsVars == <<bs_columns, bs_series_1, bs_series_2, bs_n_iterations,
            bs_normal_dict_1, bs_normal_dict_2, bs_a, bs_b, bs_correlations,
            bs_error, bs_pc>>

vars == <<dispVars, pairVars, cgVars, prVars, ixVars, bsVars>>

notDisp == <<pairVars, cgVars, prVars, ixVars, bsVars>>
notPair == <<dispVars, cgVars, prVars, ixVars, bsVars>>
notCg == <<dispVars, pairVars, prVars, ixVars, bsVars>>
notPr == <<dispVars, pairVars, cgVars, ixVars, bsVars>>
notIx == <<dispVars, pairVars, cgVars, prVars, bsVars>>
notBs == <<dispVars, pairVars, cgVars, prVars, ixVars>>

None == "None"
\* the replicate_column_name argument
replicate_column_name == "time"
\* the column level names the input table may carry (a plain column index
\* has the one unnamed level)
ColumnsNamesChoices == {<<"sample", "time">>, <<"sample">>, <<None>>}

(* ----------------------------- helpers -------------------------------- *)
Range(s) == {s[i] : i \in DOMAIN s}

Min(a, b) == IF a <= b THEN a ELSE b

SeqsUpTo(S, n) == UNION {[1..k -> S] : k \in 0..n}

\* pandas Index.unique(): the distinct labels in order of first appearance
RECURSIVE unique(_)
unique(s) ==
    IF s = <<>> THEN <<>>
    ELSE LET front == unique(SubSeq(s, 1, Len(s) - 1))
             last  == s[Len(s)]
         IN  IF last \in Range(front) THEN front ELSE Append(front, last)

\* position of label a in the sequence s of distinct labels (0 when absent)
Pos(s, a) == IF a \in Range(s) THEN CHOOSE i \in DOMAIN s : s[i] = a ELSE 0

\* itertools.combinations(s, 2): the pairs <<s[i], s[j]>>, i < j, in
\* lexicographic order of (i, j)
RECURSIVE combinationsWithReplacement(_)
combinationsWithReplacement(s) ==
    IF Len(s) < 1 THEN <<>>
    ELSE [j \in 1..Len(s) |-> <<s[1], s[j]>>] \o combinationsWithReplacement(Tail(s))
RECURSIVE combinations(_)
combinations(s) ==
    IF Len(s) < 2 THEN <<>>
    ELSE [j \in 1..(Len(s) - 1) |-> <<s[1], s[j + 1]>>] \o combinations(Tail(s))

RECURSIVE factorial(_)
factorial(n) == IF n <= 0 THEN 1 ELSE n * factorial(n - 1)

combinations_count(n, r) ==
    IF r > n THEN 0
    ELSE factorial(n) \div (factorial(r) * factorial(n - r))

(* ------------------------- the pair generator ------------------------- *)
\* the n_iterations argument (its default)
n_iterations == 10

\* line 110, {index: row for index, row in df.iterrows()}: a row is named by
\* its position in the table; a label carried by several rows keeps the last
dict_of_series(idx) ==
    [e \in Range(idx) |-> CHOOSE i \in DOMAIN idx :
        idx[i] = e /\ \A j \in DOMAIN idx : idx[j] = e => j <= i]

\* the task _pair_interator yields for one combination
PairTask(combination, series, n_iter) ==
    <<combination[1], combination[2], series[combination[1]],
      series[combination[2]], n_iter>>

\* the entity pair of a task
Key(task) == <<task[1], task[2]>>

(* --------------------------- the estimator ---------------------------- *)
\* The result bootstrap_spearman_correlation gives for a pair is fixed per
\* pair here: <<corr, combined_pvalue>> as two tokens that tell the pairs
\* and the two orientations apart.
EstCorr(s1, s2) == 10 * s1 + s2
EstPvalue(s1, s2) == 100 + 10 * s1 + s2

\* _compute_pair_spearman_correlation: <<s1, s2, corr, combined_pvalue>>
_compute_pair_spearman_correlation(task) ==
    <<task[1], task[2], EstCorr(task[1], task[2]), EstPvalue(task[1], task[2])>>

(* -------------------------- dict and DataFrame ------------------------ *)
EmptyDict == <<>>

\* if s1 not in d: d[s1] = {} ; d[s1][s2] = v
SetItemSymmetric(d, s1, s2, v) ==
    LET a == IF s1 \in DOMAIN d THEN d[s1] ELSE EmptyDict
        b == IF s2 \in DOMAIN d THEN d[s2] ELSE EmptyDict
    IN  (s1 :> ((s2 :> v) @@ a)) @@ (s2 :> ((s1 :> v) @@ b)) @@ d
SetItemFresh(d, s1, s2, v) == (s1 :> (s2 :> v)) @@ d
SetItem(d, s1, s2, v) ==
    LET inner == IF s1 \in DOMAIN d THEN d[s1] ELSE EmptyDict
    IN  (s1 :> ((s2 :> v) @@ inner)) @@ d

\* pd.DataFrame(dict of dicts): the outer keys are the columns, the union of
\* the inner keys the rows; a cell absent from the dict is NaN
DataFrame(d) ==
    [columns |-> DOMAIN d,
     index   |-> UNION {DOMAIN d[c] : c \in DOMAIN d},
     cells   |-> d]

(* ------------------------- the worker pool ---------------------------- *)
\* Pool._get_tasks: the next chunk of at most size tasks, and what is left
ChunkHead(s, size) == SubSeq(s, 1, Min(size, Len(s)))
ChunkRestSkips(s, size) == SubSeq(s, Min(size, Len(s)) + 2, Len(s))
ChunkRest(s, size) == SubSeq(s, Min(size, Len(s)) + 1, Len(s))

\* the tasks of a chunk a worker runs: mapstar stops at the first that raises
FirstFailing(chunk) ==
    IF \E k \in DOMAIN chunk : Key(chunk[k]) \in failing
    THEN CHOOSE k \in DOMAIN chunk :
            /\ Key(chunk[k]) \in failing
            /\ \A m \in 1..(k - 1) : Key(chunk[m]) \notin failing
    ELSE 0
Attempted(chunk) ==
    IF FirstFailing(chunk) = 0 THEN {Key(chunk[k]) : k \in DOMAIN chunk}
    ELSE {Key(chunk[k]) : k \in 1..FirstFailing(chunk)}

\* the result a worker sends back for a chunk
ChunkResultSwallow(chunk) ==
    [ok |-> TRUE,
     items |-> [k \in 1..(IF FirstFailing(chunk) = 0 THEN Len(chunk)
                          ELSE FirstFailing(chunk) - 1)
                  |-> _compute_pair_spearman_correlation(chunk[k])]]
ChunkResult(chunk) ==
    IF FirstFailing(chunk) = 0
    THEN [ok |-> TRUE,
          items |-> [k \in DOMAIN chunk |-> _compute_pair_spearman_correlation(chunk[k])]]
    ELSE [ok |-> FALSE, items |-> <<>>]

\* Pool.__exit__: terminate() leaves no worker process
Terminated(workers) == {}

Bump(f, S) == [p \in DOMAIN f |-> IF p \in S THEN f[p] + 1 ELSE f[p]]

(* --------------------- bootstrap_spearman_corr_parallel ---------------- *)
HasLevelAlways(names, name) == TRUE
HasLevel(names, name) == name \in Range(names)

DispInit ==
    /\ columns_names \in ColumnsNamesChoices
    /\ index \in SeqsUpTo(Ents, MaxRows)
    /\ n_processes \in 1..MaxProcs
    /\ chunk_size \in 1..MaxChunk
    /\ failing \in {{}} \cup {{<<a, b>>, <<b, a>>} : a, b \in Ents}
    /\ pc = "start"
    /\ iter_pairs = <<>>
    /\ iter_length = 0
    /\ correlations = EmptyDict
    /\ pvalues = EmptyDict
    /\ result = None
    /\ error = None
    /\ pool = {}
    /\ inqueue = <<>>
    /\ busy = {}
    /\ outqueue = <<>>
    /\ cur = <<>>
    /\ nSent = 0
    /\ nRecv = 0
    /\ yielded = [p \in Ents \X Ents |-> 0]
    /\ computed = [p \in Ents \X Ents |-> 0]
    /\ folded = [p \in Ents \X Ents |-> 0]
    /\ reordered = FALSE

\* lines 100-101: the replicate label is no level name
RaiseIndexError ==
    /\ pc = "start"
    /\ ~HasLevel(columns_names, replicate_column_name)
    /\ pc' = "raised"
    /\ error' = "IndexError"
    /\ UNCHANGED <<columns_names, index, n_processes, chunk_size, failing,
                   iter_pairs, iter_length, correlations, pvalues, result,
                   pool, inqueue, busy, outqueue, cur, nSent, nRecv,
                   yielded, computed, folded, reordered>>
    /\ UNCHANGED notDisp

\* lines 104-113: normalise the table, build the pair stream and the dicts
Prepare ==
    /\ pc = "start"
    /\ HasLevel(columns_names, replicate_column_name)
    /\ iter_pairs' = combinations(unique(index))
    /\ iter_length' = combinations_count(Len(unique(index)), 2)
    /\ correlations' = EmptyDict
    /\ pvalues' = EmptyDict
    /\ pc' = "prepared"
    /\ UNCHANGED <<columns_names, index, n_processes, chunk_size, failing,
                   result, error, pool, inqueue, busy, outqueue, cur, nSent,
                   nRecv, yielded, computed, folded, reordered>>
    /\ UNCHANGED notDisp

\* lines 115-127: the pool is created and imap_unordered is started
EnterPool ==
    /\ pc = "prepared"
    /\ pool' = 1..n_processes
    /\ busy' = {}
    /\ pc' = "collect"
    /\ UNCHANGED <<columns_names, index, n_processes, chunk_size, failing,
                   iter_pairs, iter_length, correlations, pvalues, result,
                   error, inqueue, outqueue, cur, nSent, nRecv,
                   yielded, computed, folded, reordered>>
    /\ UNCHANGED notDisp

\* the pool's task handler pulls the next chunk out of _pair_interator
HandleTasks ==
    /\ pc = "collect"
    /\ iter_pairs # <<>>
    /\ LET head == ChunkHead(iter_pairs, chunk_size)
           chunk == [k \in DOMAIN head |->
                        PairTask(head[k], dict_of_series(index), n_iterations)]
       IN  /\ inqueue' = Append(inqueue, chunk)
           /\ yielded' = Bump(yielded, Range(head))
    /\ iter_pairs' = ChunkRest(iter_pairs, chunk_size)
    /\ nSent' = nSent + 1
    /\ UNCHANGED <<columns_names, index, n_processes, chunk_size, failing, pc,
                   iter_length, correlations, pvalues, result, error, pool,
                   busy, outqueue, cur, nRecv, computed, folded, reordered>>
    /\ UNCHANGED notDisp

\* an idle worker takes the next chunk
WorkerGet ==
    /\ pc = "collect"
    /\ Cardinality(busy) < Cardinality(pool)
    /\ inqueue # <<>>
    /\ busy' = busy \cup {Head(inqueue)}
    /\ inqueue' = Tail(inqueue)
    /\ UNCHANGED <<columns_names, index, n_processes, chunk_size, failing, pc,
                   iter_pairs, iter_length, correlations, pvalues, result,
                   error, pool, outqueue, cur, nSent, nRecv,
                   yielded, computed, folded, reordered>>
    /\ UNCHANGED notDisp

\* a worker finishes its chunk and sends the result back
WorkerRun(chunk) ==
    /\ pc = "collect"
    /\ chunk \in busy
    /\ computed' = Bump(computed, Attempted(chunk))
    /\ outqueue' = Append(outqueue, ChunkResult(chunk))
    /\ busy' = busy \ {chunk}
    /\ UNCHANGED <<columns_names, index, n_processes, chunk_size, failing, pc,
                   iter_pairs, iter_length, correlations, pvalues, result,
                   error, pool, inqueue, cur, nSent, nRecv, yielded, folded,
                   reordered>>
    /\ UNCHANGED notDisp

\* line 129: the caller takes the next completed chunk from the iterator
NextChunk ==
    /\ pc = "collect"
    /\ cur = <<>>
    /\ outqueue # <<>>
    /\ Head(outqueue).ok
    /\ cur' = Head(outqueue).items
    /\ outqueue' = Tail(outqueue)
    /\ nRecv' = nRecv + 1
    /\ UNCHANGED <<columns_names, index, n_processes, chunk_size, failing, pc,
                   iter_pairs, iter_length, correlations, pvalues, result,
                   error, pool, inqueue, busy, nSent, yielded, computed, folded, reordered>>
    /\ UNCHANGED notDisp

\* line 129: the next completed chunk carries a worker's exception; it is
\* raised in the caller and leaving the with block terminates the pool
RaiseWorkerError ==
    /\ pc = "collect"
    /\ cur = <<>>
    /\ outqueue # <<>>
    /\ ~Head(outqueue).ok
    /\ pc' = "raised"
    /\ error' = "WorkerError"
    /\ pool' = Terminated(pool)
    /\ busy' = IF Terminated(pool) = {} THEN {} ELSE busy
    /\ inqueue' = <<>>
    /\ outqueue' = <<>>
    /\ nRecv' = nRecv + 1
    /\ UNCHANGED <<columns_names, index, n_processes, chunk_size, failing,
                   iter_pairs, iter_length, correlations, pvalues, result,
                   cur, nSent, yielded, computed, folded, reordered>>
    /\ UNCHANGED notDisp

\* the pairs the pair stream of this run holds
Generated == Range(combinations(unique(index)))

\* the result of pair p is folded while that of a pair generated before it
\* is not folded yet
FoldedEarly(p) ==
    LET all == combinations(unique(index))
    IN  \E i, j \in DOMAIN all : i < j /\ all[j] = p /\ folded[all[i]] = 0

\* lines 129-136: one result is folded into the two dicts
Fold ==
    /\ pc = "collect"
    /\ cur # <<>>
    /\ LET r == Head(cur)
       IN  /\ correlations' = SetItem(correlations, r[1], r[2], r[3])
           /\ pvalues' = SetItem(pvalues, r[1], r[2], r[4])
           /\ folded' = Bump(folded, {<<r[1], r[2]>>})
           /\ reordered' = (reordered \/ FoldedEarly(<<r[1], r[2]>>))
    /\ cur' = Tail(cur)
    /\ UNCHANGED <<columns_names, index, n_processes, chunk_size, failing, pc,
                   iter_pairs, iter_length, result, error, pool, inqueue,
                   busy, outqueue, nSent, nRecv, yielded, computed>>
    /\ UNCHANGED notDisp

\* lines 137-138: the iterator is exhausted, the with block is left and the
\* two DataFrames are returned
Return ==
    /\ pc = "collect"
    /\ cur = <<>>
    /\ iter_pairs = <<>>
    /\ nRecv = nSent
    /\ pool' = Terminated(pool)
    /\ busy' = IF Terminated(pool) = {} THEN {} ELSE busy
    /\ result' = <<DataFrame(correlations), DataFrame(pvalues)>>
    /\ pc' = "done"
    /\ UNCHANGED <<columns_names, index, n_processes, chunk_size, failing,
                   iter_pairs, iter_length, correlations, pvalues, error,
                   inqueue, outqueue, cur, nSent, nRecv,
                   yielded, computed, folded, reordered>>
    /\ UNCHANGED notDisp

\* the dispatcher is not running
DispIdle ==
    /\ columns_names = <<>>
    /\ index = <<>>
    /\ n_processes = 0
    /\ chunk_size = 0
    /\ failing = {}
    /\ pc = "idle"
    /\ iter_pairs = <<>>
    /\ iter_length = 0
    /\ correlations = EmptyDict
    /\ pvalues = EmptyDict
    /\ result = None
    /\ error = None
    /\ pool = {}
    /\ inqueue = <<>>
    /\ busy = {}
    /\ outqueue = <<>>
    /\ cur = <<>>
    /\ nSent = 0
    /\ nRecv = 0
    /\ yielded = <<>>
    /\ computed = <<>>
    /\ folded = <<>>
    /\ reordered = FALSE

(* ------------------- the pair generator on its own -------------------- *)
\* the pair generator is not running
PairIdle ==
    /\ pg_ids = <<>>
    /\ pg_iter = <<>>
    /\ pg_tasks = <<>>
    /\ pg_total = None
    /\ pg_pc = "idle"

PairInit ==
    /\ pg_ids \in {s \in SeqsUpTo(1..MaxIds, MaxIds) : Cardinality(Range(s)) = Len(s)}
    /\ pg_iter = <<>>
    /\ pg_tasks = <<>>
    /\ pg_total = None
    /\ pg_pc = "start"

\* run_parallel.py lines 108-110: the combinations iterator, the progress
\* total and the series lookup are created
PairStart ==
    /\ pg_pc = "start"
    /\ pg_iter' = combinations(pg_ids)
    /\ pg_total' = combinations_count(Len(pg_ids), 2)
    /\ pg_pc' = "yielding"
    /\ UNCHANGED <<pg_ids, pg_tasks>>
    /\ UNCHANGED notPair

\* _pair_interator, lines 30-31: the next combination is packaged and yielded
PairYield ==
    /\ pg_pc = "yielding"
    /\ pg_iter # <<>>
    /\ pg_tasks' = Append(pg_tasks,
                          PairTask(Head(pg_iter), dict_of_series(pg_ids), n_iterations))
    /\ pg_iter' = Tail(pg_iter)
    /\ UNCHANGED <<pg_ids, pg_total, pg_pc>>
    /\ UNCHANGED notPair

\* _pair_interator, line 30: the combinations are exhausted
PairStop ==
    /\ pg_pc = "yielding"
    /\ pg_iter = <<>>
    /\ pg_pc' = "exhausted"
    /\ UNCHANGED <<pg_ids, pg_iter, pg_tasks, pg_total>>
    /\ UNCHANGED notPair

PairNext == PairStart \/ PairYield \/ PairStop

(* ------------------------------ graphs -------------------------------- *)
\* A graph is the record of its node set, its edge set (an edge is the set
\* of its endpoints: two nodes, or one for a self-loop) and the weight
\* attribute of the edges that carry one.
Nodes == 1..MaxNodes
Cells == Nodes \X Nodes
\* the missing value of a matrix cell: a number no correlation (in tenths)
\* and no p-value (in thousandths) takes; it is never compared by size
NaN == 100000

\* A matrix is the function from the cells <<row, column>> that were given
\* an entry to that entry; every other cell of the frame is NaN.
At(matrix, c) == IF c \in DOMAIN matrix THEN matrix[c] ELSE NaN

Abs(x) == IF x < 0 THEN 0 - x ELSE x

EmptyGraph == [nodes |-> {}, edges |-> {}, weight |-> <<>>]

\* G.neighbors(n)
neighbors(G, n) == {v \in G.nodes : \E e \in G.edges : e = {n, v}}

\* nx.isolates(G): the nodes of degree 0
isolates(G) == {n \in G.nodes : \A e \in G.edges : n \notin e}

\* G.remove_nodes_from(S): the nodes go with the edges at them
remove_nodes_from(G, S) ==
    LET kept == {e \in G.edges : e \cap S = {}}
    IN  [nodes |-> G.nodes \ S,
         edges |-> kept,
         weight |-> [e \in kept \cap DOMAIN G.weight |-> G.weight[e]]]

\* the orders in which a set of nodes can be iterated
Orders(S) == {s \in [1..Cardinality(S) -> S] : Range(s) = S}

(* --------------------------- make_corr_graph -------------------------- *)
\* Correlations are in tenths and p-values in thousandths.
\* the default pvalue_cutoff, 0.05
DefaultPvalueCutoff == 50
\* the default corr_cutoff, 0.6
DefaultCorrCutoff == 6
\* the cutoff pairs <<pvalue_cutoff, corr_cutoff>> the builder is called with
CutoffChoices == {<<DefaultPvalueCutoff, DefaultCorrCutoff>>, <<1, 8>>}
\* the <<correlation, p-value>> a populated cell may hold
CellChoices == {<<8, 1>>, <<7, 1>>, <<6, 50>>, <<5, 1>>, <<-9, 1>>,
                <<8, 60>>, <<NaN, 1>>, <<8, NaN>>}

\* line 61, corr[pvalues <= pvalue_cutoff]: the cells whose p-value passes
\* keep their correlation, the others become NaN (NaN <= x is False)
Masked(corr, pv, pvalue_cutoff) ==
    [c \in DOMAIN corr |->
        IF At(pv, c) # NaN /\ At(pv, c) <= pvalue_cutoff THEN corr[c] ELSE NaN]

\* line 61, .melt(ignore_index=False).dropna(): one triple
\* <<biomolecule1 (row), biomolecule2 (column), value>> per cell with a value
Melted(masked) ==
    {<<c[1], c[2], masked[c]>> : c \in {d \in DOMAIN masked : masked[d] # NaN}}

\* lines 62-64: the triples whose abs_value reaches the cutoff
AboveCutoff(triples, corr_cutoff) == {t \in triples : Abs(t[3]) >= corr_cutoff}

\* line 74: the triples that become edges
PositiveOnlyOff(triples) == triples
PositiveOnly(triples) == {t \in triples : t[3] >= 0}

\* lines 67-79: the nodes of all retained triples, an edge per positive one;
\* the triples are added in ascending abs_value, so that an edge given by
\* both orientations keeps the larger weight
GraphOf(signi_corrs) ==
    LET pos == PositiveOnly(signi_corrs)
        E   == {{t[1], t[2]} : t \in pos}
    IN  [nodes |-> {t[1] : t \in signi_corrs} \cup {t[2] : t \in signi_corrs},
         edges |-> E,
         weight |-> [e \in E |->
            CHOOSE w \in {Abs(t[3]) : t \in {u \in pos : {u[1], u[2]} = e}} :
                \A t \in {u \in pos : {u[1], u[2]} = e} : Abs(t[3]) <= w]]

make_corr_graph(corr, pv, pvalue_cutoff, corr_cutoff) ==
    LET signi_corrs == AboveCutoff(Melted(Masked(corr, pv, pvalue_cutoff)), corr_cutoff)
        G == GraphOf(signi_corrs)
    IN  remove_nodes_from(G, isolates(G))

\* the matrices over the given cells that hold a value in at most n cells
Matrices(cells, choices, n) ==
    UNION {[S -> choices] : S \in {T \in SUBSET cells : Cardinality(T) <= n}}
\* the correlation and the p-value matrix of such a choice
CorrOf(f) == [c \in DOMAIN f |-> f[c][1]]
PvaluesOf(f) == [c \in DOMAIN f |-> f[c][2]]
\* the matrices of layer k out of a choice for the cells of several layers
LayerOf(f, k) == [c \in {d \in Cells : <<k, d>> \in DOMAIN f} |-> f[<<k, c>>]]

CgIdle ==
    /\ cg_corr = <<>>
    /\ cg_pvalues = <<>>
    /\ cg_pvalue_cutoff = 0
    /\ cg_corr_cutoff = 0
    /\ cg_G = None
    /\ cg_pc = "idle"

CgInit ==
    /\ \E f \in Matrices(Cells, CellChoices, MaxCells) :
          /\ cg_corr = CorrOf(f)
          /\ cg_pvalues = PvaluesOf(f)
    /\ \E cut \in CutoffChoices :
          /\ cg_pvalue_cutoff = cut[1]
          /\ cg_corr_cutoff = cut[2]
    /\ cg_G = None
    /\ cg_pc = "start"

\* make_corr_graph, lines 61-83
MakeCorrGraph ==
    /\ cg_pc = "start"
    /\ cg_G' = make_corr_graph(cg_corr, cg_pvalues, cg_pvalue_cutoff, cg_corr_cutoff)
    /\ cg_pc' = "built"
    /\ UNCHANGED <<cg_corr, cg_pvalues, cg_pvalue_cutoff, cg_corr_cutoff>>
    /\ UNCHANGED notCg

(* ------------------------ remove_G_pair_isolates ---------------------- *)
\* lines 28-30: node has the one neighbour, whose only neighbour is node
MutualPairLoose(G, node) == Cardinality(neighbors(G, node)) = 1
MutualPair(G, node) ==
    /\ Cardinality(neighbors(G, node)) = 1
    /\ LET nb == CHOOSE v \in neighbors(G, node) : TRUE
       IN  neighbors(G, nb) = {node}

\* lines 23-32, one turn of the loop: to_remove after node is visited
Visit(G, node, to_remove) ==
    IF node \in Range(to_remove) THEN to_remove
    ELSE IF neighbors(G, node) = {} THEN Append(to_remove, node)
    ELSE IF MutualPair(G, node)
         THEN to_remove \o <<node, CHOOSE v \in neighbors(G, node) : TRUE>>
    ELSE to_remove

\* lines 34-37: the listed nodes are removed, then the isolates
Pruned(G, to_remove) ==
    LET G1 == remove_nodes_from(G, Range(to_remove))
    IN  remove_nodes_from(G1, isolates(G1))

\* the whole function, the nodes iterated in the given order
RECURSIVE VisitAll(_, _, _, _)
VisitAll(G, order, i, to_remove) ==
    IF i > Len(order) THEN to_remove
    ELSE VisitAll(G, order, i + 1, Visit(G, order[i], to_remove))
remove_G_pair_isolates(G_in, order) == Pruned(G_in, VisitAll(G_in, order, 1, <<>>))

\* the graphs without attributes on the given nodes, self-loops included
Graphs(S) ==
    {[nodes |-> N, edges |-> E, weight |-> <<>>] :
        N \in SUBSET S, E \in SUBSET {e \in SUBSET S : Cardinality(e) \in {1, 2}}}

PrIdle ==
    /\ pr_G_in = EmptyGraph
    /\ pr_order = <<>>
    /\ pr_i = 0
    /\ pr_to_remove = <<>>
    /\ pr_G = None
    /\ pr_pc = "idle"

PrInit ==
    /\ pr_G_in \in {G \in Graphs(Nodes) : \A e \in G.edges : e \subseteq G.nodes}
    /\ pr_order \in Orders(pr_G_in.nodes)
    /\ pr_i = 1
    /\ pr_to_remove = <<>>
    /\ pr_G = None
    /\ pr_pc = "loop"

\* lines 23-32: the loop visits the next node
PruneVisit ==
    /\ pr_pc = "loop"
    /\ pr_i <= Len(pr_order)
    /\ pr_to_remove' = Visit(pr_G_in, pr_order[pr_i], pr_to_remove)
    /\ pr_i' = pr_i + 1
    /\ UNCHANGED <<pr_G_in, pr_order, pr_G, pr_pc>>
    /\ UNCHANGED notPr

\* lines 34-37: the loop is over, the nodes are removed and the copy returned
PruneFinish ==
    /\ pr_pc = "loop"
    /\ pr_i > Len(pr_order)
    /\ pr_G' = Pruned(pr_G_in, pr_to_remove)
    /\ pr_pc' = "done"
    /\ UNCHANGED <<pr_G_in, pr_order, pr_i, pr_to_remove>>
    /\ UNCHANGED notPr

(* ----------------------- make_intersection_graph --------------------- *)
\* nx.intersection_all(graphs): the nodes and the edges that are in every
\* graph; no attribute is copied
intersection_allOfFirst(graphs) ==
    [nodes |-> graphs[1].nodes, edges |-> graphs[1].edges, weight |-> <<>>]
intersection_all(graphs) ==
    [nodes |-> {n \in graphs[1].nodes : \A k \in DOMAIN graphs : n \in graphs[k].nodes},
     edges |-> {e \in graphs[1].edges : \A k \in DOMAIN graphs : e \in graphs[k].edges},
     weight |-> <<>>]

\* the cells the dispatcher populates: row after column
LayerCells == {c \in Cells : c[1] > c[2]}
\* the <<correlation, p-value>> a populated cell of a layer may hold
LayerChoices == {<<8, 1>>, <<6, 1>>}
\* the cells of n layers
Positions(n) == (1..n) \X LayerCells

IxIdle ==
    /\ ix_corrs = <<>>
    /\ ix_pvalues = <<>>
    /\ ix_pvalue_cutoff = 0
    /\ ix_corr_cutoff = 0
    /\ ix_layer_cutoffs = <<>>
    /\ ix_graphs = <<>>
    /\ ix_inter = None
    /\ ix_G = None
    /\ ix_error = None
    /\ ix_communities = <<>>
    /\ ix_comm_trans = <<>>
    /\ ix_trans_comm = <<>>
    /\ ix_count = 0
    /\ ix_pc = "idle"

\* a call by a caller who means one pair of cutoffs for all layers
IxInit ==
    /\ \E n \in 0..MaxLayers :
          /\ \E f \in Matrices(Positions(n), LayerChoices, MaxLayerCells) :
                /\ ix_corrs = [k \in 1..n |-> CorrOf(LayerOf(f, k))]
                /\ ix_pvalues = [k \in 1..n |-> PvaluesOf(LayerOf(f, k))]
          /\ \E cut \in CutoffChoices :
                /\ ix_pvalue_cutoff = cut[1]
                /\ ix_corr_cutoff = cut[2]
                /\ ix_layer_cutoffs = [k \in 1..n |-> cut]
    /\ ix_graphs = <<>>
    /\ ix_inter = None
    /\ ix_G = None
    /\ ix_error = None
    /\ ix_communities = <<>>
    /\ ix_comm_trans = <<>>
    /\ ix_trans_comm = <<>>
    /\ ix_count = 0
    /\ ix_pc = "start"

\* a call by a caller who means a pair of cutoffs for each layer: the
\* signature (lines 89-90) has room for one pvalue_cutoff and one
\* corr_cutoff, and the caller passes the pair meant for one of the layers
IxInitLayers ==
    /\ \E n \in 0..MaxLayers :
          /\ \E f \in Matrices(Positions(n), LayerChoices, MaxTunedCells) :
                /\ ix_corrs = [k \in 1..n |-> CorrOf(LayerOf(f, k))]
                /\ ix_pvalues = [k \in 1..n |-> PvaluesOf(LayerOf(f, k))]
          /\ \E wanted \in [1..n -> CutoffChoices] :
                /\ ix_layer_cutoffs = wanted
                /\ \E cut \in (IF n = 0 THEN CutoffChoices ELSE Range(wanted)) :
                      /\ ix_pvalue_cutoff = cut[1]
                      /\ ix_corr_cutoff = cut[2]
    /\ ix_graphs = <<>>
    /\ ix_inter = None
    /\ ix_G = None
    /\ ix_error = None
    /\ ix_communities = <<>>
    /\ ix_comm_trans = <<>>
    /\ ix_trans_comm = <<>>
    /\ ix_count = 0
    /\ ix_pc = "start"

\* lines 105-114 with the cutoffs not handed on: every layer's graph is
\* built with the defaults of make_corr_graph
IxMakeGraphsDefaults ==
    /\ ix_pc = "start"
    /\ ix_graphs' = [k \in DOMAIN ix_corrs |->
            make_corr_graph(ix_corrs[k], ix_pvalues[k],
                            DefaultPvalueCutoff, DefaultCorrCutoff)]
    /\ ix_pc' = "graphs"
    /\ UNCHANGED <<ix_corrs, ix_pvalues, ix_pvalue_cutoff, ix_corr_cutoff,
                   ix_layer_cutoffs,
                   ix_inter, ix_G, ix_error>>
    /\ UNCHANGED ixComm
    /\ UNCHANGED notIx
\* lines 105-114: the graph of every layer is built, each with the one pair
\* of cutoffs of the call
IxMakeGraphs ==
    /\ ix_pc = "start"
    /\ ix_graphs' = [k \in DOMAIN ix_corrs |->
            make_corr_graph(ix_corrs[k], ix_pvalues[k],
                            ix_pvalue_cutoff, ix_corr_cutoff)]
    /\ ix_pc' = "graphs"
    /\ UNCHANGED <<ix_corrs, ix_pvalues, ix_pvalue_cutoff, ix_corr_cutoff,
                   ix_layer_cutoffs,
                   ix_inter, ix_G, ix_error>>
    /\ UNCHANGED ixComm
    /\ UNCHANGED notIx

\* line 117: the layer graphs are intersected
IxIntersect ==
    /\ ix_pc = "graphs"
    /\ ix_graphs # <<>>
    /\ ix_inter' = intersection_all(ix_graphs)
    /\ ix_pc' = "intersected"
    /\ UNCHANGED <<ix_corrs, ix_pvalues, ix_pvalue_cutoff, ix_corr_cutoff,
                   ix_layer_cutoffs,
                   ix_graphs, ix_G, ix_error>>
    /\ UNCHANGED ixComm
    /\ UNCHANGED notIx

\* line 117: nx.intersection_all refuses an empty list of graphs
IxIntersectRaise ==
    /\ ix_pc = "graphs"
    /\ ix_graphs = <<>>
    /\ ix_error' = "ValueError"
    /\ ix_pc' = "raised"
    /\ UNCHANGED <<ix_corrs, ix_pvalues, ix_pvalue_cutoff, ix_corr_cutoff,
                   ix_layer_cutoffs,
                   ix_graphs, ix_inter, ix_G>>
    /\ UNCHANGED ixComm
    /\ UNCHANGED notIx

\* line 118 left out: the intersection is handed on as it is
IxPruneSkipped ==
    /\ ix_pc = "intersected"
    /\ ix_G' = ix_inter
    /\ ix_pc' = "pruned"
    /\ UNCHANGED <<ix_corrs, ix_pvalues, ix_pvalue_cutoff, ix_corr_cutoff,
                   ix_layer_cutoffs,
                   ix_graphs, ix_inter, ix_error>>
    /\ UNCHANGED ixComm
    /\ UNCHANGED notIx
\* line 118: the intersection is pruned, its nodes visited in some order
IxPrune ==
    /\ ix_pc = "intersected"
    /\ \E order \in Orders(ix_inter.nodes) :
          ix_G' = remove_G_pair_isolates(ix_inter, order)
    /\ ix_pc' = "pruned"
    /\ UNCHANGED <<ix_corrs, ix_pvalues, ix_pvalue_cutoff, ix_corr_cutoff,
                   ix_layer_cutoffs,
                   ix_graphs, ix_inter, ix_error>>
    /\ UNCHANGED ixComm
    /\ UNCHANGED notIx

\* the ways of splitting a set of nodes into non-empty disjoint sets
RECURSIVE Partitions(_)
Partitions(S) ==
    IF S = {} THEN {{}}
    ELSE LET x == CHOOSE y \in S : TRUE
         IN  UNION {{P \cup {B \cup {x}} : P \in Partitions(S \ (B \cup {x}))} :
                        B \in SUBSET (S \ {x})}

\* nx.community.louvain_communities(G): a list of non-empty disjoint sets
\* that cover the nodes.  Which split the modularity search ends in, and
\* the order of the list, depend on the unseeded random state; a graph
\* without edges is returned as its single nodes.
louvain_communities(G) ==
    IF G.edges = {}
    THEN Orders({{n} : n \in G.nodes})
    ELSE UNION {Orders(P) : P \in Partitions(G.nodes)}

\* line 121: the pruned intersection is split into communities
IxLouvain ==
    /\ ix_pc = "pruned"
    /\ \E communities \in louvain_communities(ix_G) :
          ix_communities' = communities
    /\ ix_pc' = "communities"
    /\ UNCHANGED <<ix_corrs, ix_pvalues, ix_pvalue_cutoff, ix_corr_cutoff,
                   ix_layer_cutoffs,
                   ix_graphs, ix_inter, ix_G, ix_error>>
    /\ UNCHANGED <<ix_comm_trans, ix_trans_comm, ix_count>>
    /\ UNCHANGED notIx

\* line 121 in the networkx releases whose louvain_partitions computes the
\* modularity of a graph without edges: the division by the degree sum
\* raises, and the error reaches the caller
IxLouvainRaise ==
    /\ ix_pc = "pruned"
    /\ ix_G.edges = {}
    /\ ix_error' = "ZeroDivisionError"
    /\ ix_pc' = "raised"
    /\ UNCHANGED <<ix_corrs, ix_pvalues, ix_pvalue_cutoff, ix_corr_cutoff,
                   ix_layer_cutoffs,
                   ix_graphs, ix_inter, ix_G>>
    /\ UNCHANGED ixComm
    /\ UNCHANGED notIx

\* lines 127-128: every member of the community is given the id count
AssignAll(trans_comm, community, count) ==
    [b \in DOMAIN trans_comm \cup community |->
        IF b \in community THEN count ELSE trans_comm[b]]

\* line 129, count += 1, once per community
NextCountPerMember(count, community) == count + Cardinality(community)
NextCount(count, community) == count + 1

\* lines 125-129: one turn of the loop over the communities
IxAssign ==
    /\ ix_pc = "communities"
    /\ ix_count < Len(ix_communities)
    /\ LET community == ix_communities[ix_count + 1]
       IN  /\ ix_comm_trans' = [i \in DOMAIN ix_comm_trans \cup {ix_count} |->
                    IF i = ix_count THEN community ELSE ix_comm_trans[i]]
           /\ ix_trans_comm' = AssignAll(ix_trans_comm, community, ix_count)
           /\ ix_count' = NextCount(ix_count, community)
    /\ UNCHANGED <<ix_corrs, ix_pvalues, ix_pvalue_cutoff, ix_corr_cutoff,
                   ix_layer_cutoffs,
                   ix_graphs, ix_inter, ix_G, ix_error, ix_communities, ix_pc>>
    /\ UNCHANGED notIx

\* line 131: the loop is over, G_inter and trans_comm are returned
IxReturn ==
    /\ ix_pc = "communities"
    /\ ix_count >= Len(ix_communities)
    /\ ix_pc' = "returned"
    /\ UNCHANGED <<ix_corrs, ix_pvalues, ix_pvalue_cutoff, ix_corr_cutoff,
                   ix_layer_cutoffs,
                   ix_graphs, ix_inter, ix_G, ix_error>>
    /\ UNCHANGED ixComm
    /\ UNCHANGED notIx

(* ------------------- bootstrap_spearman_correlation ------------------- *)
\* A measurement series is the sequence of the replicate labels of its
\* values; a value is named by its position.  A label is an integer, or
\* NaN when the sample has none.
LabelChoices == {1, 2, NaN}
SeriesChoices == SeqsUpTo(LabelChoices, MaxSamples)

\* the positions of the series that carry the label
PositionsOf(series, label) == {i \in DOMAIN series : series[i] = label}

\* the labels in ascending order
RECURSIVE Ascending(_)
Ascending(S) ==
    IF S = {} THEN <<>>
    ELSE LET least == CHOOSE x \in S : \A y \in S : x <= y
         IN  <<least>> \o Ascending(S \ {least})

\* n copies of a label
RECURSIVE Repeat(_, _)
Repeat(label, n) == IF n = 0 THEN <<>> ELSE <<label>> \o Repeat(label, n - 1)

RECURSIVE Concat(_)
Concat(ss) == IF ss = <<>> THEN <<>> ELSE Head(ss) \o Concat(Tail(ss))

\* run_parallel.py lines 105-106, 110: the columns are sorted by replicate
\* label, missing labels last, and every row becomes a series indexed by
\* these labels
sort_index(columns) ==
    LET present == Ascending(Range(columns) \ {NaN})
    IN  Concat([k \in DOMAIN present |->
                  Repeat(present[k], Cardinality(PositionsOf(columns, present[k])))])
        \o Repeat(NaN, Cardinality(PositionsOf(columns, NaN)))

\* lines 27-28, df.groupby(by=...): the group keys.  groupby sorts the keys
\* and drops the group of the missing label.
GroupKeysUnsorted(series) ==
    unique(SelectSeq(series, LAMBDA label : label # NaN))
GroupKeys(series) == Ascending(Range(series) \ {NaN})

\* lines 25-30: one item per group key, in the order of the keys; the
\* distribution of a key is fitted on the values that carry the key
_calc_norm_dict(series) ==
    LET keys == GroupKeys(series)
    IN  [k \in DOMAIN keys |->
            [key |-> keys[k], fitted |-> PositionsOf(series, keys[k])]]

\* lines 64-65, [normal_dict[i].rvs(size=1)[0] for i in normal_dict]: one
\* value per item, in dict order; a value is tagged with the label and the
\* fit of the distribution it was drawn from
Drawn(normal_dict) ==
    [k \in DOMAIN normal_dict |->
        [label |-> normal_dict[k].key, from |-> normal_dict[k].fitted]]

BsIdle ==
    /\ bs_columns = <<>>
    /\ bs_series_1 = <<>>
    /\ bs_series_2 = <<>>
    /\ bs_n_iterations = 0
    /\ bs_normal_dict_1 = <<>>
    /\ bs_normal_dict_2 = <<>>
    /\ bs_a = <<>>
    /\ bs_b = <<>>
    /\ bs_correlations = <<>>
    /\ bs_error = None
    /\ bs_pc = "idle"

\* either the dispatcher is about to build a pair task from a table whose
\* columns carry the labels in some order, or the estimator is called
\* directly on two series
BsInit ==
    /\ \/ /\ bs_columns \in SeriesChoices
          /\ bs_series_1 = <<>>
          /\ bs_series_2 = <<>>
          /\ bs_pc = "table"
       \/ /\ bs_columns = <<>>
          /\ bs_series_1 \in SeriesChoices
          /\ bs_series_2 \in SeriesChoices
          /\ bs_pc = "start"
    /\ bs_n_iterations \in 1..MaxIterations
    /\ bs_normal_dict_1 = <<>>
    /\ bs_normal_dict_2 = <<>>
    /\ bs_a = <<>>
    /\ bs_b = <<>>
    /\ bs_correlations = <<>>
    /\ bs_error = None

\* run_parallel.py lines 104-110 and 30-31: both series of a pair task are
\* rows of the one sorted table
BsBuildTask ==
    /\ bs_pc = "table"
    /\ bs_series_1' = sort_index(bs_columns)
    /\ bs_series_2' = sort_index(bs_columns)
    /\ bs_pc' = "start"
    /\ UNCHANGED <<bs_columns, bs_n_iterations, bs_normal_dict_1,
                   bs_normal_dict_2, bs_a, bs_b, bs_correlations, bs_error>>
    /\ UNCHANGED notBs

\* line 57
BsFit1 ==
    /\ bs_pc = "start"
    /\ bs_normal_dict_1' = _calc_norm_dict(bs_series_1)
    /\ bs_pc' = "fit1"
    /\ UNCHANGED <<bs_columns, bs_series_1, bs_series_2, bs_n_iterations,
                   bs_normal_dict_2, bs_a, bs_b, bs_correlations, bs_error>>
    /\ UNCHANGED notBs

\* line 58
BsFit2 ==
    /\ bs_pc = "fit1"
    /\ bs_normal_dict_2' = _calc_norm_dict(bs_series_2)
    /\ bs_pc' = "loop"
    /\ UNCHANGED <<bs_columns, bs_series_1, bs_series_2, bs_n_iterations,
                   bs_normal_dict_1, bs_a, bs_b, bs_correlations, bs_error>>
    /\ UNCHANGED notBs

\* lines 63-65: an iteration draws the two vectors
BsDraw ==
    /\ bs_pc = "loop"
    /\ Len(bs_correlations) < bs_n_iterations
    /\ bs_a' = Drawn(bs_normal_dict_1)
    /\ bs_b' = Drawn(bs_normal_dict_2)
    /\ bs_pc' = "drawn"
    /\ UNCHANGED <<bs_columns, bs_series_1, bs_series_2, bs_n_iterations,
                   bs_normal_dict_1, bs_normal_dict_2, bs_correlations, bs_error>>
    /\ UNCHANGED notBs

\* lines 66-68: spearmanr pairs the vectors by position; the entry kept
\* here is the number of pairs the coefficient rests on
BsCorrelate ==
    /\ bs_pc = "drawn"
    /\ Len(bs_a) = Len(bs_b)
    /\ bs_correlations' = Append(bs_correlations, Len(bs_a))
    /\ bs_pc' = "loop"
    /\ UNCHANGED <<bs_columns, bs_series_1, bs_series_2, bs_n_iterations,
                   bs_normal_dict_1, bs_normal_dict_2, bs_a, bs_b, bs_error>>
    /\ UNCHANGED notBs

\* line 66: spearmanr refuses vectors of different lengths
BsRaise ==
    /\ bs_pc = "drawn"
    /\ Len(bs_a) # Len(bs_b)
    /\ bs_error' = "ValueError"
    /\ bs_pc' = "raised"
    /\ UNCHANGED <<bs_columns, bs_series_1, bs_series_2, bs_n_iterations,
                   bs_normal_dict_1, bs_normal_dict_2, bs_a, bs_b,
                   bs_correlations>>
    /\ UNCHANGED notBs

\* lines 70-77: the iterations are over, the aggregate is returned
BsReturn ==
    /\ bs_pc = "loop"
    /\ Len(bs_correlations) >= bs_n_iterations
    /\ bs_pc' = "done"
    /\ UNCHANGED <<bs_columns, bs_series_1, bs_series_2, bs_n_iterations,
                   bs_normal_dict_1, bs_normal_dict_2, bs_a, bs_b,
                   bs_correlations, bs_error>>
    /\ UNCHANGED notBs

(* ------------------------------ the run ------------------------------- *)
Init == DispInit /\ PairIdle /\ CgIdle /\ PrIdle /\ IxIdle /\ BsIdle

Next ==
    \/ RaiseIndexError
    \/ Prepare
    \/ EnterPool
    \/ HandleTasks
    \/ WorkerGet
    \/ \E chunk \in busy : WorkerRun(chunk)
    \/ NextChunk
    \/ RaiseWorkerError
    \/ Fold
    \/ Return

Spec == Init /\ [][Next]_vars

InitPairs == DispIdle /\ PairInit /\ CgIdle /\ PrIdle /\ IxIdle /\ BsIdle

SpecPairs == InitPairs /\ [][PairNext]_vars

InitCorrGraph == DispIdle /\ PairIdle /\ CgInit /\ PrIdle /\ IxIdle /\ BsIdle

SpecCorrGraph == InitCorrGraph /\ [][MakeCorrGraph]_vars

InitPrune == DispIdle /\ PairIdle /\ CgIdle /\ PrInit /\ IxIdle /\ BsIdle

NextPrune == PruneVisit \/ PruneFinish

SpecPrune == InitPrune /\ [][NextPrune]_vars

InitInter == DispIdle /\ PairIdle /\ CgIdle /\ PrIdle /\ IxInit /\ BsIdle

NextInter ==
    \/ IxMakeGraphs
    \/ IxIntersect
    \/ IxIntersectRaise
    \/ IxPrune
    \/ IxLouvain
    \/ IxLouvainRaise
    \/ IxAssign
    \/ IxReturn

SpecInter == InitInter /\ [][NextInter]_vars

InitLayers == DispIdle /\ PairIdle /\ CgIdle /\ PrIdle /\ IxInitLayers /\ BsIdle

SpecLayers == InitLayers /\ [][NextInter]_vars

InitBootstrap == DispIdle /\ PairIdle /\ CgIdle /\ PrIdle /\ IxIdle /\ BsInit

NextBootstrap ==
    \/ BsBuildTask
    \/ BsFit1
    \/ BsFit2
    \/ BsDraw
    \/ BsCorrelate
    \/ BsRaise
    \/ BsReturn

SpecBootstrap == InitBootstrap /\ [][NextBootstrap]_vars

(* ======================= claims on the dispatcher ===================== *)
\* the number of distinct entity ids of the input table
NDistinct == Cardinality(Range(index))

\* what the two dicts must hold whatever the schedule: one entry [a][b] per
\* generated pair <<a, b>>, holding the estimator's result for that pair
ExpectedCorrelations ==
    [a \in {p[1] : p \in Generated} |->
        [b \in {p[2] : p \in {q \in Generated : q[1] = a}} |-> EstCorr(a, b)]]
ExpectedPvalues ==
    [a \in {p[1] : p \in Generated} |->
        [b \in {p[2] : p \in {q \in Generated : q[1] = a}} |-> EstPvalue(a, b)]]

\* C1: when the run returns, each of the C(n,2) unordered pairs of distinct
\* entity ids was yielded, computed by a worker and folded exactly once, and
\* nothing else was computed or folded.
C1_EachPairOnce ==
    pc = "done" =>
        /\ 2 * Cardinality(Generated) = NDistinct * (NDistinct - 1)
        /\ \A a, b \in Range(index) :
              a # b => folded[<<a, b>>] + folded[<<b, a>>] = 1
        /\ \A p \in Ents \X Ents :
              IF p \in Generated
              THEN yielded[p] = 1 /\ computed[p] = 1 /\ folded[p] = 1
              ELSE yielded[p] = 0 /\ computed[p] = 0 /\ folded[p] = 0

\* C1 witness: a run over three entities, in chunks of two on two workers,
\* returned after folding its three pairs
C1_Witness ==
    /\ pc = "done"
    /\ NDistinct = 3
    /\ chunk_size = 2
    /\ n_processes = 2
    /\ \E a, b \in Ents : folded[<<a, b>>] = 1

\* C2: the keyed contents of the two returned matrices are a function of the
\* table alone: whatever the completion order, chunk_size and n_processes,
\* the cell of every generated pair holds the estimator's result for it.
C2_ContentsScheduleFree ==
    pc = "done" =>
        /\ correlations = ExpectedCorrelations
        /\ pvalues = ExpectedPvalues
        /\ result = <<DataFrame(ExpectedCorrelations), DataFrame(ExpectedPvalues)>>

\* C2 witness: a run that folded a result ahead of an earlier pair's
\* returned
C2_Witness ==
    /\ pc = "done"
    /\ reordered
    /\ NDistinct = 3
    /\ correlations # EmptyDict

\* C3: with a replicate label that is no level name of the columns, the
\* call ends in IndexError and never yields a task, creates the pool, calls
\* the estimator or returns matrices.
C3_ConfigErrorBeforeDispatch ==
    replicate_column_name \notin Range(columns_names) =>
        /\ pc \in {"start", "raised"}
        /\ pc = "raised" => error = "IndexError"
        /\ pool = {}
        /\ iter_pairs = <<>>
        /\ inqueue = <<>>
        /\ result = None
        /\ \A p \in Ents \X Ents : yielded[p] = 0 /\ computed[p] = 0

\* C3 witness: a table of three entities without the replicate level was
\* refused
C3_Witness ==
    /\ pc = "raised"
    /\ error = "IndexError"
    /\ replicate_column_name \notin Range(columns_names)
    /\ NDistinct = 3

\* C4: a run whose pair stream holds a pair the estimator raises on never
\* returns; when the worker's error has reached the caller no matrix is
\* returned and no worker is left; no pair is computed twice; and a run
\* that returns leaves no worker either.
C4_WorkerErrorFatal ==
    /\ pc = "done" => failing \cap Generated = {}
    /\ (pc = "raised" /\ error = "WorkerError") =>
          result = None /\ pool = {} /\ busy = {}
    /\ pc = "done" => pool = {} /\ busy = {}
    /\ result # None => pc = "done"
    /\ \A p \in Ents \X Ents : computed[p] <= 1

\* C4 witness: the estimator raised after another pair had been folded, the
\* error reached the caller and the pool is gone
C4_Witness ==
    /\ pc = "raised"
    /\ error = "WorkerError"
    /\ n_processes = 2
    /\ \E p \in Ents \X Ents : folded[p] = 1
    /\ \E p \in failing : computed[p] = 1

\* C5: in each returned matrix the set of row labels equals the set of
\* column labels, the entity ids, and the two matrices carry the same
\* labels.
C5_SquareSameLabels ==
    pc = "done" =>
        /\ result[1].index = result[1].columns
        /\ result[2].index = result[2].columns
        /\ result[1].index = result[2].index
        /\ result[1].columns = result[2].columns

\* C6: every cell written, [a][b], has a before b in the order of the
\* table's identifiers and is that of a generated pair: no diagonal cell
\* and no mirrored cell is ever written.
C6_OneDirectionOnly ==
    \A d \in {correlations, pvalues} :
        \A a \in DOMAIN d : \A b \in DOMAIN d[a] :
            /\ Pos(unique(index), a) < Pos(unique(index), b)
            /\ <<a, b>> \in Generated
            /\ a # b
            /\ ~(b \in DOMAIN d /\ a \in DOMAIN d[b])

\* C6 witness: a returned run over three entities whose identifier order is
\* not the order of the ids: a cell [a][b] with a > b is populated
C6_Witness ==
    /\ pc = "done"
    /\ NDistinct = 3
    /\ \E a \in DOMAIN correlations : \E b \in DOMAIN correlations[a] : a > b

(* ===================== claims on the pair generator =================== *)
\* the unordered pair of entities of a task
Ends(task) == {task[1], task[2]}

\* C7: once exhausted, the generator has yielded n(n-1)/2 tasks for n >= 2
\* ids and none for n < 2; every task pairs two different ids of the input,
\* no unordered pair comes twice, every id is in n-1 tasks, and
\* combinations_count(n, 2) is the number of tasks.
C7_PairCount ==
    pg_pc = "exhausted" =>
        LET n == Len(pg_ids)
        IN  /\ 2 * Len(pg_tasks) = (IF n >= 2 THEN n * (n - 1) ELSE 0)
            /\ \A k \in DOMAIN pg_tasks :
                  /\ Cardinality(Ends(pg_tasks[k])) = 2
                  /\ Ends(pg_tasks[k]) \subseteq Range(pg_ids)
            /\ \A k, m \in DOMAIN pg_tasks :
                  k # m => Ends(pg_tasks[k]) # Ends(pg_tasks[m])
            /\ \A e \in Range(pg_ids) :
                  n >= 2 =>
                      Cardinality({k \in DOMAIN pg_tasks : e \in Ends(pg_tasks[k])}) = n - 1
            /\ pg_total = Len(pg_tasks)

\* C7 witness: the generator ran dry over four ids after yielding six tasks
C7_Witness ==
    /\ pg_pc = "exhausted"
    /\ Len(pg_ids) = 4
    /\ Len(pg_tasks) = 6
    /\ pg_total = 6

(* ====================== claims on make_corr_graph ===================== *)
\* the cell holds a p-value within the cutoff and a correlation that is not
\* negative and reaches the magnitude cutoff
Qualifies(c) ==
    /\ At(cg_pvalues, c) # NaN
    /\ At(cg_pvalues, c) <= cg_pvalue_cutoff
    /\ At(cg_corr, c) # NaN
    /\ Abs(At(cg_corr, c)) >= cg_corr_cutoff
    /\ At(cg_corr, c) >= 0

\* C8: {a, b} is an edge of the built graph exactly when the cell [a][b] or
\* the cell [b][a] qualifies (so a NaN correlation, a NaN p-value or a
\* negative correlation gives no edge); every edge carries as weight the
\* absolute correlation of a qualifying cell of its endpoints; every node is
\* an endpoint of an edge.
C8_EdgeIffQualifies ==
    cg_pc = "built" =>
        /\ cg_G.edges \subseteq {{a, b} : a, b \in Nodes}
        /\ \A a, b \in Nodes :
              {a, b} \in cg_G.edges <=> (Qualifies(<<a, b>>) \/ Qualifies(<<b, a>>))
        /\ DOMAIN cg_G.weight = cg_G.edges
        /\ \A e \in cg_G.edges :
              \E c \in Cells :
                  {c[1], c[2]} = e /\ Qualifies(c) /\ cg_G.weight[e] = Abs(At(cg_corr, c))
        /\ \A n \in cg_G.nodes : \E e \in cg_G.edges : n \in e

\* C8 witness: under the default cutoffs a matrix with a significant
\* correlation of -0.9 and a significant one of 0.8 gave the one edge of the
\* latter, weight 0.8
C8_Witness ==
    /\ cg_pc = "built"
    /\ cg_pvalue_cutoff = DefaultPvalueCutoff
    /\ cg_corr_cutoff = DefaultCorrCutoff
    /\ \E c \in Cells : At(cg_corr, c) = -9 /\ At(cg_pvalues, c) = 1
    /\ \E c \in Cells : At(cg_corr, c) = 8 /\ At(cg_pvalues, c) = 1
    /\ Cardinality(cg_G.edges) = 1
    /\ \A e \in cg_G.edges : cg_G.weight[e] = 8

(* ================== claims on remove_G_pair_isolates ================== *)
\* the degree of a node: a self-loop counts twice
Degree(G, n) ==
    Cardinality({e \in G.edges : n \in e /\ e # {n}})
        + (IF {n} \in G.edges THEN 2 ELSE 0)

\* the connected component of a node
RECURSIVE Reach(_, _)
Reach(G, S) ==
    LET T == S \cup UNION {neighbors(G, x) : x \in S}
    IN  IF T = S THEN S ELSE Reach(G, T)
Component(G, n) == Reach(G, {n})

\* every node of a component of three or more nodes of G is a node of R
\* with all its edges
LargeComponentsKept(G, R) ==
    \A n \in G.nodes :
        Cardinality(Component(G, n)) >= 3 =>
            /\ n \in R.nodes
            /\ \A e \in G.edges : n \in e => e \in R.edges

\* the nodes that have no neighbour, and those whose only neighbour has them
\* as its only neighbour (a pair joined only to each other, or a node whose
\* only edge is a self-loop)
MutuallyIsolated(G) ==
    {u \in G.nodes : neighbors(G, u) = {}}
        \cup {u \in G.nodes : \E v \in G.nodes :
                neighbors(G, u) = {v} /\ neighbors(G, v) = {u}}

LayerQualifies(k, c) ==
    /\ At(ix_pvalues[k], c) # NaN
    /\ At(ix_pvalues[k], c) <= ix_pvalue_cutoff
    /\ At(ix_corrs[k], c) # NaN
    /\ Abs(At(ix_corrs[k], c)) >= ix_corr_cutoff
    /\ At(ix_corrs[k], c) >= 0

\* C10: the intersection holds exactly the nodes that are in every layer's
\* graph and exactly the edges that are in every layer's graph, whatever
\* weights the layers give them (an edge {a, b} is in it exactly when every
\* layer has a qualifying cell for a and b); the graph handed on is the
\* pruning of that intersection (it lacks exactly the nodes without
\* neighbour and the pairs joined only to each other), and each of its
\* edges is an edge of every layer's graph.
C10_IntersectionThenPruning ==
    ix_pc \in {"intersected", "pruned"} =>
        /\ ix_inter.nodes =
              {n \in Nodes : \A k \in DOMAIN ix_graphs : n \in ix_graphs[k].nodes}
        /\ ix_inter.edges =
              {e \in SUBSET Nodes : \A k \in DOMAIN ix_graphs : e \in ix_graphs[k].edges}
        /\ \A a, b \in Nodes :
              {a, b} \in ix_inter.edges <=>
                  \A k \in DOMAIN ix_corrs :
                      LayerQualifies(k, <<a, b>>) \/ LayerQualifies(k, <<b, a>>)
        /\ ix_pc = "pruned" =>
              /\ ix_G = remove_nodes_from(ix_inter, MutuallyIsolated(ix_inter))
              /\ \A e \in ix_G.edges : \A k \in DOMAIN ix_graphs : e \in ix_graphs[k].edges
              /\ ix_G.nodes \subseteq ix_inter.nodes

\* C10 witness: two layers that weigh a shared edge differently gave a
\* pruned intersection that keeps that edge
C10_Witness ==
    /\ ix_pc = "pruned"
    /\ Len(ix_graphs) = 2
    /\ \E e \in ix_G.edges : ix_graphs[1].weight[e] # ix_graphs[2].weight[e]

\* two layers whose graphs have exactly the nodes X, Y, Z in common and
\* exactly the edge X-Y in common, the edge Y-Z being in one of them only
SharesXYDiffersYZ(X, Y, Z) ==
    /\ Len(ix_graphs) = 2
    /\ Cardinality({X, Y, Z}) = 3
    /\ ix_graphs[1].nodes \cap ix_graphs[2].nodes = {X, Y, Z}
    /\ ix_graphs[1].edges \cap ix_graphs[2].edges = {{X, Y}}
    /\ ({Y, Z} \in ix_graphs[1].edges) # ({Y, Z} \in ix_graphs[2].edges)

UsedIds == {ix_trans_comm[n] : n \in DOMAIN ix_trans_comm}

\* C12: the keys of the returned mapping are exactly the nodes of the
\* returned pruned intersection graph, each mapped to one community id; the
\* ids used are 0..k-1, each given to at least one node; the communities
\* are non-empty, pairwise disjoint, and their union is the node set.
C12_MappingIsPartition ==
    ix_pc = "returned" =>
        /\ DOMAIN ix_trans_comm = ix_G.nodes
        /\ UsedIds = 0..(Cardinality(UsedIds) - 1)
        /\ DOMAIN ix_comm_trans = UsedIds
        /\ \A i \in UsedIds :
              /\ ix_comm_trans[i] # {}
              /\ ix_comm_trans[i] = {n \in ix_G.nodes : ix_trans_comm[n] = i}
        /\ \A i, j \in UsedIds :
              i # j => ix_comm_trans[i] \cap ix_comm_trans[j] = {}
        /\ UNION {ix_comm_trans[i] : i \in UsedIds} = ix_G.nodes

\* C12 witness: a pruned intersection of three nodes was returned split
\* into a community of two nodes, listed first, and a community of one
C12_Witness ==
    /\ ix_pc = "returned"
    /\ Cardinality(ix_G.nodes) = 3
    /\ Len(ix_communities) = 2
    /\ Cardinality(ix_communities[1]) = 2
    /\ UsedIds = {0, 1}

\* the graph layer k's matrices give under the cutoff pair cut
LayerGraphUnder(k, cut) ==
    make_corr_graph(ix_corrs[k], ix_pvalues[k], cut[1], cut[2])

\* C13 as stated: the cutoffs are tunable per layer, each layer's graph is
\* built with that layer's own cutoff pair, also when two layers of one
\* call are meant to be thresholded with different pairs.
C13_PerLayerCutoffs ==
    ix_pc \notin {"idle", "start"} =>
        \A k \in DOMAIN ix_graphs :
            ix_graphs[k] = LayerGraphUnder(k, ix_layer_cutoffs[k])

\* C13 amended: the cutoffs are tunable per call, not per layer: every
\* layer's graph is built with the one pvalue_cutoff and the one
\* corr_cutoff of the call (an edge {a, b} is in layer k's graph exactly
\* when a cell of a and b in layer k passes that pair), so a layer meant
\* for another pair is thresholded with the call's pair all the same, and
\* two layers with the same matrices get the same graph.
C13_OneCutoffPairPerCall ==
    ix_pc \notin {"idle", "start"} =>
        /\ \A k \in DOMAIN ix_graphs :
              /\ \A a, b \in Nodes :
                    {a, b} \in ix_graphs[k].edges <=>
                        LayerQualifies(k, <<a, b>>) \/ LayerQualifies(k, <<b, a>>)
              /\ ix_graphs[k] =
                    LayerGraphUnder(k, <<ix_pvalue_cutoff, ix_corr_cutoff>>)
        /\ \A j, k \in DOMAIN ix_graphs :
              (ix_corrs[j] = ix_corrs[k] /\ ix_pvalues[j] = ix_pvalues[k])
                  => ix_graphs[j] = ix_graphs[k]

\* C13 witness: two layers with the same matrices, meant for different
\* cutoff pairs under which their graphs would differ, have been built
C13_Witness ==
    /\ ix_pc = "graphs"
    /\ Len(ix_graphs) = 2
    /\ ix_corrs[1] = ix_corrs[2]
    /\ ix_pvalues[1] = ix_pvalues[2]
    /\ ix_layer_cutoffs[1] # ix_layer_cutoffs[2]
    /\ LayerGraphUnder(1, ix_layer_cutoffs[1]) # LayerGraphUnder(2, ix_layer_cutoffs[2])
    /\ ix_graphs[1].edges # {}

(* ============ claims on bootstrap_spearman_correlation =============== *)
\* the replicate labels a series carries (a missing label is none)
LabelSet(series) == Range(series) \ {NaN}

\* C14: in every iteration, when the two series carry the same set of
\* labels, each drawn vector holds exactly one value per distinct label
\* (a sample without label belongs to no group), and for every position k
\* the k-th values of both vectors are drawn from the distributions fitted
\* for one and the same label, each on its own series' values of that
\* label, in the label order of distribution set 1; the two series of a
\* task the dispatcher builds from one table carry the same labels,
\* whatever the order of the table's columns.
C14_DrawsAlignedByLabel ==
    /\ (bs_columns # <<>> /\ bs_pc # "table") =>
          /\ LabelSet(bs_series_1) = LabelSet(bs_columns)
          /\ LabelSet(bs_series_2) = LabelSet(bs_columns)
    /\ (bs_pc = "drawn" /\ LabelSet(bs_series_1) = LabelSet(bs_series_2)) =>
          /\ Len(bs_a) = Cardinality(LabelSet(bs_series_1))
          /\ Len(bs_b) = Cardinality(LabelSet(bs_series_2))
          /\ {bs_a[k].label : k \in DOMAIN bs_a} = LabelSet(bs_series_1)
          /\ {bs_b[k].label : k \in DOMAIN bs_b} = LabelSet(bs_series_2)
          /\ \A k \in DOMAIN bs_a :
                /\ bs_a[k].label = bs_b[k].label
                /\ bs_a[k].label = bs_normal_dict_1[k].key
                /\ bs_a[k].from = PositionsOf(bs_series_1, bs_a[k].label)
                /\ bs_b[k].from = PositionsOf(bs_series_2, bs_a[k].label)

\* C14 witness: two series that carry the same two labels in different
\* orders, one of them with replicates, are in their second iteration
C14_Witness ==
    /\ bs_pc = "drawn"
    /\ Len(bs_correlations) = 1
    /\ LabelSet(bs_series_1) = {1, 2}
    /\ LabelSet(bs_series_2) = {1, 2}
    /\ bs_series_1[1] = 2
    /\ bs_series_2[1] = 1
    /\ Len(bs_series_2) = 3

====
